---- MODULE Spec2Model ----
(***************************************************************************)
(* SCEPy: construction (PKCSPKIEnvelopeBuilder, Signer, PKIMessageBuilder) *)
(* and parsing (SCEPMessage) of SCEP pkiMessages.                          *)
(*                                                                         *)
(* ASN.1 values are modelled structurally.  A byte string whose content    *)
(* the program never looks into is a record: [len, id] for caller-supplied *)
(* or random octets, [alg, of] for a digest, [key, alg, over, flip] for a  *)
(* signature.  The plaintext, the symmetric key, the IV and the ciphertext *)
(* of an envelope are sequences of octets 0..255.  DER encoding is         *)
(* modelled by its effect on the structure: every SET OF is written in     *)
(* the ascending order of its members' encodings.                          *)
(***************************************************************************)
EXTENDS FiniteSets, Integers, Sequences, TLC

VARIABLES
  _signers,                  \* PKIMessageBuilder._signers
  _cms_attributes,           \* PKIMessageBuilder._cms_attributes
  _certificates,             \* PKIMessageBuilder._certificates
  _pki_envelope,             \* PKIMessageBuilder._pki_envelope
  _data,                     \* PKCSPKIEnvelopeBuilder._data
  _encryption_algorithm_id,  \* PKCSPKIEnvelopeBuilder._encryption_algorithm_id
  _recipients,               \* PKCSPKIEnvelopeBuilder._recipients
  envelope,                  \* result of the last PKCSPKIEnvelopeBuilder.finalize
  pkiMessage,                \* result of the last PKIMessageBuilder.finalize
  finalized,                 \* number of PKIMessageBuilder.finalize calls so far
  raw,                       \* the bytes last handed to SCEPMessage.parse
  msg,                       \* the SCEPMessage the last parse returned
  decrypted,                 \* outcome of the last get_decrypted_envelope_data
  raised,                    \* the exception the last call raised, or NoError
  crypto_calls,              \* digest and signature computations done so far
  degenerate                 \* create_degenerate_pkcs7: its argument and what it returned

builder == <<_signers, _cms_attributes, _certificates, _pki_envelope>>
envelope_builder == <<_data, _encryption_algorithm_id, _recipients>>
outputs ==
  <<envelope, pkiMessage, finalized, raw, msg, decrypted, crypto_calls, degenerate>>
vars == <<builder, envelope_builder, outputs, raised>>

\* Python's None, and the absence of an exception.
None == [none |-> TRUE]
NoError == "NoError"

\* ------------------------------------------------------------------ bounds
\* Attributes plus certificates a PKIMessageBuilder is given, recipients a
\* PKCSPKIEnvelopeBuilder is given, finalize calls on one PKIMessageBuilder.
MaxBuilderSize == 3
MaxRecipients == 2
MaxFinalize == 2
\* Certificates create_degenerate_pkcs7 is given.
MaxDegenerateCerts == 5

\* ------------------------------------------------------------ input domains
\* Certificates; certificate c has serial number c and the RSA key pair c.
Certs == {1, 2}
DigestNames == {"sha1", "sha256", "sha512"}

\* enums.MessageType, enums.PKIStatus, enums.FailInfo: member name |-> value.
Member(enum, v) == [enum |-> enum, value |-> v]
MessageType ==
  [PKCSReq |-> Member("MessageType", "3"), RenewalReq |-> Member("MessageType", "17"),
   UpdateReq |-> Member("MessageType", "19"), CertPoll |-> Member("MessageType", "20"),
   CertRep |-> Member("MessageType", "22")]
PKIStatus ==
  [SUCCESS |-> Member("PKIStatus", "0"), FAILURE |-> Member("PKIStatus", "2"),
   PENDING |-> Member("PKIStatus", "3")]
FailInfo ==
  [BadAlg |-> Member("FailInfo", "0"), BadMessageCheck |-> Member("FailInfo", "1"),
   BadRequest |-> Member("FailInfo", "2"), BadTime |-> Member("FailInfo", "3"),
   BadCertId |-> Member("FailInfo", "4")]

\* A Python str that may also be None is [str |-> s]; octets are [len, id].
Str(s) == [str |-> s]
Bytes(n, i) == [len |-> n, id |-> i]

\* ------------------------------------------------------------- ASN.1 values
PrintableString(s) == [printable |-> s]
OctetString(b) == [octets |-> b]
ContentType(name) == [content_type |-> name]
CMSAttribute(type, value) == [type |-> type, value |-> value]

\* .native of an attribute value.
Native(v) ==
  IF "printable" \in DOMAIN v THEN Str(v.printable)
  ELSE IF "octets" \in DOMAIN v THEN v.octets
  ELSE Str(v.content_type)

\* asn1.SCEPCMSAttributeType.map: the name of the attribute type.
SCEPAttributeNames ==
  {"message_type", "pki_status", "fail_info", "sender_nonce", "recipient_nonce",
   "transaction_id"}

\* The ASCII codes of the characters the printable strings of the model use.
Ascii ==
  ("0" :> 48) @@ ("1" :> 49) @@ ("2" :> 50) @@ ("3" :> 51) @@ ("4" :> 52) @@
  ("5" :> 53) @@ ("6" :> 54) @@ ("7" :> 55) @@ ("8" :> 56) @@ ("9" :> 57) @@
  ("-" :> 45) @@ ("a" :> 97) @@ ("u" :> 117)

\* The characters of the printable strings of the model, one string each.
Chars ==
  ("0" :> <<"0">>) @@ ("1" :> <<"1">>) @@ ("2" :> <<"2">>) @@ ("3" :> <<"3">>) @@
  ("4" :> <<"4">>) @@ ("17" :> <<"1", "7">>) @@ ("19" :> <<"1", "9">>) @@
  ("20" :> <<"2", "0">>) @@ ("22" :> <<"2", "2">>) @@
  ("a-1" :> <<"a", "-", "1">>) @@ ("u-4" :> <<"u", "-", "4">>)

\* Content octets of a value's encoding, as far as they decide the order.
ValueOctets(v) ==
  IF "printable" \in DOMAIN v
  THEN [i \in 1..Len(Chars[v.printable]) |-> Ascii[Chars[v.printable][i]]]
  ELSE IF "octets" \in DOMAIN v /\ "id" \in DOMAIN v.octets THEN <<v.octets.id>>
  ELSE <<>>

DigestLen(alg) == CASE alg = "sha1" -> 20 [] alg = "sha256" -> 32 [] OTHER -> 64

\* Length of a value's content octets.
ValueLen(v) ==
  IF "printable" \in DOMAIN v THEN Len(Chars[v.printable])
  ELSE IF "octets" \in DOMAIN v
  THEN IF "len" \in DOMAIN v.octets THEN v.octets.len ELSE DigestLen(v.octets.alg)
  ELSE 9

\* Tag octet of a value: PrintableString 19, OCTET STRING 4, OBJECT IDENTIFIER 6.
ValueTag(v) ==
  IF "printable" \in DOMAIN v THEN 19 ELSE IF "octets" \in DOMAIN v THEN 4 ELSE 6

\* Length of an attribute type's OID and its last arc: content-type and
\* message-digest are 1.2.840.113549.1.9.{3,4}, the SCEP attributes are
\* 2.16.840.1.113733.1.9.{2..7}.
OidLen(type) == IF type \in {"content_type", "message_digest"} THEN 9 ELSE 10
OidLastArc(type) ==
  CASE type = "content_type" -> 3
    [] type = "message_digest" -> 4
    [] type = "message_type" -> 2
    [] type = "pki_status" -> 3
    [] type = "fail_info" -> 4
    [] type = "sender_nonce" -> 5
    [] type = "recipient_nonce" -> 6
    [] OTHER -> 7

\* The octets of Attribute ::= SEQUENCE { type OID, values SET OF value } that
\* decide its place in a SET OF: length, then the OID, then the value.
AttributeKey(a) ==
  <<OidLen(a.type) + ValueLen(a.value) + 6, OidLen(a.type), OidLastArc(a.type),
    ValueLen(a.value) + 2, ValueTag(a.value), ValueLen(a.value)>>
    \o ValueOctets(a.value)

\* Lexicographic order of octet strings.
RECURSIVE LexLess(_, _)
LexLess(s, t) ==
  IF t = <<>> THEN FALSE
  ELSE IF s = <<>> THEN TRUE
  ELSE IF Head(s) # Head(t) THEN Head(s) < Head(t)
  ELSE LexLess(Tail(s), Tail(t))

\* The keyed member x put into the sorted sequence s of keyed members, after
\* the members that do not follow it.
RECURSIVE Insert(_, _)
Insert(x, s) ==
  IF s = <<>> THEN <<x>>
  ELSE IF LexLess(x.key, Head(s).key) THEN <<x>> \o s
  ELSE <<Head(s)>> \o Insert(x, Tail(s))

RECURSIVE SortKeyed(_)
SortKeyed(s) ==
  IF s = <<>> THEN <<>> ELSE Insert(s[Len(s)], SortKeyed(SubSeq(s, 1, Len(s) - 1)))

\* asn1crypto SetOf._set_contents: the members of a SET OF in the ascending
\* order of their encodings; keys[i] stands for the encoding of s[i].
SetOfContents(s, keys) ==
  LET sorted == SortKeyed([i \in 1..Len(s) |-> [key |-> keys[i], item |-> s[i]]])
  IN [i \in 1..Len(s) |-> sorted[i].item]

Range(s) == {s[i] : i \in 1..Len(s)}

\* ------------------------------------------------------- cryptography library
\* hashes.Hash(alg).update(data).finalize(): a collision-free digest.
Hash(alg, data) == [alg |-> alg, of |-> data]

\* private_key.signer(PKCS1v15(), alg).update(data).finalize() under key pair key.
RsaSign(key, alg, data) == [key |-> key, alg |-> alg, over |-> data, flip |-> FALSE]

\* verifier.verify(): whether sig is the signature of data under key pair key.
RsaVerify(key, alg, data, sig) == sig = RsaSign(key, alg, data)

\* public_key().encrypt(m, PKCS1v15()) to the key pair of a certificate, and
\* key.decrypt: a ciphertext made for another key pair fails to decrypt.
RsaEncrypt(cert, m) == [to |-> cert, m |-> m]
RsaDecrypt(key, c) == IF c.to = key THEN [m |-> c.m] ELSE None

\* os.urandom(n), the outcome named by the octet r.
urandom(n, r) == [i \in 1..n |-> r]
RandomOctets == {17, 200}

\* padding.PKCS7(block_size).padder(): n octets of value n, n in 1..bs.
PKCS7Pad(data, bs) ==
  LET n == bs - (Len(data) % bs) IN data \o [i \in 1..n |-> n]

\* The block cipher under key, and its inverse: an invertible keyed map of
\* blocks standing for TripleDES and AES.
BlockEncrypt(key, b) ==
  [i \in 1..Len(b) |-> (b[i] + key[((i - 1) % Len(key)) + 1]) % 256]
BlockDecrypt(key, b) ==
  [i \in 1..Len(b) |-> (b[i] + 256 - key[((i - 1) % Len(key)) + 1]) % 256]
Mix(a, b) == [i \in 1..Len(a) |-> (a[i] + b[i]) % 256]
Unmix(a, b) == [i \in 1..Len(a) |-> (a[i] + 256 - b[i]) % 256]

\* Cipher(key, modes.CBC(iv)).encryptor(): each block is mixed with the
\* previous ciphertext block (the IV for the first) and then enciphered.
RECURSIVE CBCEncrypt(_, _, _, _)
CBCEncrypt(key, prev, data, bs) ==
  IF Len(data) < bs THEN <<>>
  ELSE LET c == BlockEncrypt(key, Mix(SubSeq(data, 1, bs), prev))
       IN c \o CBCEncrypt(key, c, SubSeq(data, bs + 1, Len(data)), bs)

\* Cipher(key, modes.CBC(iv)).decryptor().
RECURSIVE CBCDecrypt(_, _, _, _)
CBCDecrypt(key, prev, data, bs) ==
  IF Len(data) < bs THEN <<>>
  ELSE LET c == SubSeq(data, 1, bs)
       IN Unmix(BlockDecrypt(key, c), prev)
            \o CBCDecrypt(key, c, SubSeq(data, bs + 1, Len(data)), bs)

\* ------------------------------------------------------------- certificates
Serial(cert) == cert
Issuer(cert) == cert
IssuerAndSerialNumber(cert) == [issuer |-> Issuer(cert), serial_number |-> Serial(cert)]

\* ------------------------------------------------ envelope.py: the operators
\* The octets of a RecipientInfo that decide its place in RecipientInfos: the
\* recipient identifier (all else is of equal length among recipients).
RecipientInfoKey(ri) == <<ri.rid.issuer, ri.rid.serial_number>>

\* Block size in octets of the cipher of an algorithm id
\* (TripleDES.block_size and AES.block_size are given in bits).
BlockOctets(algorithm_id) == IF algorithm_id = "tripledes_3key" THEN 8 ELSE 16

\* TripleDES(key).key: a key of 8 octets is used three times over, one of 16
\* octets is followed by its first 8.
TripleDES(key) ==
  IF Len(key) = 8 THEN key \o key \o key
  ELSE IF Len(key) = 16 THEN key \o SubSeq(key, 1, 8)
  ELSE key

\* PKCSPKIEnvelopeBuilder._encrypt_data; r_key and r_iv name the outcomes of
\* the two os.urandom calls.
_encrypt_data(data, algorithm_id, r_key, r_iv) ==
  LET generated == CASE algorithm_id = "tripledes_3key" -> urandom(8, r_key)
                     [] algorithm_id = "aes128_cbc" -> urandom(16, r_key)
                     [] OTHER -> urandom(32, r_key)
      symkey == IF algorithm_id = "tripledes_3key" THEN TripleDES(generated)
                ELSE generated
      iv == IF algorithm_id = "tripledes_3key" THEN urandom(8, r_iv)
            ELSE urandom(16, r_iv)
      padded == PKCS7Pad(data, BlockOctets(algorithm_id))
  IN [symkey |-> symkey, iv |-> iv, generated |-> generated,
      ciphertext |-> CBCEncrypt(symkey, iv, padded, BlockOctets(algorithm_id))]

\* PKCSPKIEnvelopeBuilder._build_recipient_info
_build_recipient_info(symmetric_key, recipient) ==
  [version |-> 0,
   rid |-> IssuerAndSerialNumber(recipient),
   key_encryption_algorithm |-> "rsa",
   encrypted_key |-> RsaEncrypt(recipient, symmetric_key)]

\* The EnvelopedData, symmetric key and IV PKCSPKIEnvelopeBuilder.finalize
\* returns, and the octets os.urandom gave it for the key.
EnvelopeOf(data, algorithm_id, recipients, r_key, r_iv) ==
  LET e == _encrypt_data(data, algorithm_id, r_key, r_iv)
  IN [ed |->
        [version |-> 1,
         recipient_infos |->
           [i \in 1..Len(recipients) |-> _build_recipient_info(e.symkey, recipients[i])],
         encrypted_content_info |->
           [content_type |-> "data",
            content_encryption_algorithm |->
              [algorithm |-> algorithm_id, parameters |-> e.iv],
            encrypted_content |-> e.ciphertext]],
      sym_key |-> e.symkey,
      iv |-> e.iv,
      generated |-> e.generated]

\* EnvelopedData.dump() and back: RecipientInfos is a SET OF.
DumpEnvelopedData(ed) ==
  [ed EXCEPT !.recipient_infos =
     SetOfContents(@, [i \in 1..Len(@) |-> RecipientInfoKey(@[i])])]

\* ------------------------------------------------ builders.py: the operators
\* Signer(certificate, private_key, digest_algorithm)
Signer(certificate, private_key, digest_algorithm) ==
  [certificate |-> certificate, private_key |-> private_key,
   digest_algorithm |-> digest_algorithm]

\* CMSAttributes(attrs).dump() and back: the attributes in encoding order.
DumpCMSAttributes(attrs) ==
  SetOfContents(attrs, [i \in 1..Len(attrs) |-> AttributeKey(attrs[i])])

\* Signer.sign: the SignerInfo it returns, and the list cms_attributes, which
\* it extends in place (self.signed_attributes is the caller's list object).
sign(signer, data, content_type, content_digest, cms_attributes) ==
  LET signed_attributes ==
        <<CMSAttribute("content_type", content_type),
          CMSAttribute("message_digest", OctetString(content_digest))>>
          \o cms_attributes
  IN [info |->
        [version |-> 1,
         sid |-> IssuerAndSerialNumber(signer.certificate),
         digest_algorithm |-> signer.digest_algorithm,
         signed_attrs |-> signed_attributes,
         signature_algorithm |-> "rsassa_pkcs1v15",
         signature |->
           RsaSign(signer.private_key, signer.digest_algorithm,
                   DumpCMSAttributes(signed_attributes))],
      cms_attributes |-> signed_attributes]

\* PKIMessageBuilder._build_signerinfos: the signers sign in turn, each handed
\* the same list object; the SignerInfos, and the list as the last one left it.
RECURSIVE _build_signerinfos(_, _, _, _)
_build_signerinfos(signers, content, content_digest, cms_attributes) ==
  IF signers = <<>> THEN [infos |-> <<>>, cms_attributes |-> cms_attributes]
  ELSE LET first == sign(Head(signers), content, ContentType("data"), content_digest,
                         cms_attributes)
           rest == _build_signerinfos(Tail(signers), content, content_digest,
                                      first.cms_attributes)
       IN [infos |-> <<first.info>> \o rest.infos,
           cms_attributes |-> rest.cms_attributes]

\* The digest algorithm PKIMessageBuilder.finalize hashes the content with.
ContentDigestAlgorithm(signers) == "sha1"

\* The ContentInfo PKIMessageBuilder.finalize returns, and the attribute list
\* as signing left it.
PKIMessageOf(signers, cms_attributes, certs, pki_envelope) ==
  LET pkienvelope_content_info ==
        [content_type |-> "enveloped_data", content |-> DumpEnvelopedData(pki_envelope)]
      d == Hash(ContentDigestAlgorithm(signers), pkienvelope_content_info)
      built == _build_signerinfos(signers, pkienvelope_content_info, d, cms_attributes)
  IN [cinfo |->
        [content_type |-> "signed_data",
         content |->
           [version |-> 1,
            certificates |-> certs,
            signer_infos |-> built.infos,
            digest_algorithms |-> <<"sha1">>,
            encap_content_info |->
              [content_type |-> "data", content |-> pkienvelope_content_info]]],
      cms_attributes |-> built.cms_attributes]

\* The octets of a SignerInfo that decide its place in SignerInfos: its
\* length (the number of signed attributes), then the signer identifier.
SignerInfoKey(si) == <<Len(si.signed_attrs), si.sid.issuer, si.sid.serial_number>>

\* ContentInfo.dump() of a pkiMessage and ContentInfo.load of the bytes: the
\* SET OFs certificates, signerInfos and signedAttrs in encoding order.
Dump(cinfo) ==
  [cinfo EXCEPT
     !.content.certificates = SetOfContents(@, [i \in 1..Len(@) |-> <<@[i]>>]),
     !.content.signer_infos =
       LET infos == [i \in 1..Len(@) |->
                       [@[i] EXCEPT !.signed_attrs = DumpCMSAttributes(@)]]
       IN SetOfContents(infos, [i \in 1..Len(infos) |-> SignerInfoKey(infos[i])])]

\* certificates_from_asn1(cert_set): the members of the set that was read,
\* each loaded from its DER, in the order they were read in.
certificates_from_asn1(cert_set) == [i \in 1..Len(cert_set) |-> cert_set[i]]

\* create_degenerate_pkcs7 as it would be with an empty content in
\* encap_content_info.
DegeneratePKCS7WithContent(certs) ==
  [content_type |-> "signed_data",
   content |->
     [version |-> 1,
      encap_content_info |-> [content_type |-> "data", content |-> <<>>],
      digest_algorithms |-> <<>>,
      certificates |-> certs,
      signer_infos |-> <<>>,
      crls |-> <<>>]]

\* The ContentInfo create_degenerate_pkcs7(*certificates) returns; its
\* encap_content_info has no content field.
DegeneratePKCS7Of(certs) ==
  [content_type |-> "signed_data",
   content |->
     [version |-> 1,
      encap_content_info |-> [content_type |-> "data"],
      digest_algorithms |-> <<>>,
      certificates |-> [i \in 1..Len(certs) |-> certs[i]],
      signer_infos |-> <<>>,
      crls |-> <<>>]]

\* ------------------------------------------------- message.py: the operators
\* SCEPMessage.__init__: the fields of a new SCEPMessage (_fail_info is not
\* among them: it exists only once parse has met a failInfo attribute).
NewSCEPMessage ==
  [_content_info |-> None, _transaction_id |-> None,
   _message_type |-> MessageType.CertRep, _sender_nonce |-> None,
   _recipient_nonce |-> None, _pki_status |-> None, _signer_info |-> None,
   _signed_data |-> None, _certificates |-> <<>>]

\* setattr(m, field, value)
SetField(m, field, value) ==
  [f \in DOMAIN m \cup {field} |-> IF f = field THEN value ELSE m[f]]

\* MessageType(value): the member with that value, None when there is none.
MessageTypeOf(value) ==
  IF \E n \in DOMAIN MessageType : MessageType[n].value = value
  THEN MessageType[CHOOSE n \in DOMAIN MessageType : MessageType[n].value = value]
  ELSE None

\* The loop over signer_info['signed_attrs'] of SCEPMessage.parse: the
\* message after the attributes attrs, in their order, or the exception.
RECURSIVE ReadSignedAttrs(_, _)
ReadSignedAttrs(m, attrs) ==
  IF attrs = <<>> THEN [raised |-> NoError, msg |-> m]
  ELSE LET a == Head(attrs)
           v == Native(a.value)
       IN CASE a.type = "transaction_id" ->
                 ReadSignedAttrs(SetField(m, "_transaction_id", v), Tail(attrs))
            [] a.type = "message_type" ->
                 IF MessageTypeOf(v.str) = None
                 THEN [raised |-> "ValueError", msg |-> None]
                 ELSE ReadSignedAttrs(SetField(m, "_message_type", MessageTypeOf(v.str)),
                                      Tail(attrs))
            [] a.type = "sender_nonce" ->
                 ReadSignedAttrs(SetField(m, "_sender_nonce", v), Tail(attrs))
            [] a.type = "recipient_nonce" ->
                 ReadSignedAttrs(SetField(m, "_recipient_nonce", v), Tail(attrs))
            [] a.type = "pki_status" ->
                 ReadSignedAttrs(SetField(m, "_pki_status", v), Tail(attrs))
            [] a.type = "fail_info" ->
                 ReadSignedAttrs(SetField(m, "_fail_info", v), Tail(attrs))
            [] OTHER -> ReadSignedAttrs(m, Tail(attrs))

\* The search for the signer's certificate: the first attached certificate
\* with the signer's serial number, None when there is none.  The attached
\* certificates are [list |-> certs], or None.
FindSignerCert(attached, identifier) ==
  LET certs == IF attached = None THEN <<>> ELSE attached.list
  IN IF ~\E i \in 1..Len(certs) : Serial(certs[i]) = identifier.serial_number
     THEN None
     ELSE [cert |-> certs[CHOOSE i \in 1..Len(certs) :
                            /\ Serial(certs[i]) = identifier.serial_number
                            /\ \A j \in 1..(i - 1) :
                                 Serial(certs[j]) # identifier.serial_number]]

\* What SCEPMessage.parse does with the signature of one SignerInfo, once
\* the verifier is built: nothing (verifier.verify() is never called).  The
\* exception it raises, NoError when it goes on.
CheckSignature(signer_cert, signer_info) == NoError

\* What SCEPMessage.parse does with the digest of the encapsulated content,
\* once computed: nothing.  The exception it raises, NoError when it goes on.
CheckContentDigest(signed_data, signer_info) == NoError

\* One turn of the loop over signer_infos of SCEPMessage.parse.
ParseSignerInfo(m, signed_data, certs, signer_info) ==
  LET signer_cert == FindSignerCert(certs, signer_info.sid)
  IN IF signer_info.digest_algorithm \notin DigestNames
     THEN [raised |-> "ValueError", msg |-> None]
     ELSE IF signer_info.signature_algorithm # "rsassa_pkcs1v15"
     THEN [raised |-> "AssertionError", msg |-> None]
     ELSE IF certs # None /\ Len(certs.list) > 0 /\ signer_cert = None
     THEN [raised |-> "AttributeError", msg |-> None]
     ELSE IF certs # None /\ Len(certs.list) > 0
             /\ signed_data.encap_content_info.content_type # "data"
     THEN [raised |-> "AssertionError", msg |-> None]
     ELSE IF certs # None /\ Len(certs.list) > 0
             /\ CheckSignature(signer_cert, signer_info) # NoError
     THEN [raised |-> CheckSignature(signer_cert, signer_info), msg |-> None]
     ELSE IF certs # None /\ Len(certs.list) > 0
             /\ CheckContentDigest(signed_data, signer_info) # NoError
     THEN [raised |-> CheckContentDigest(signed_data, signer_info), msg |-> None]
     ELSE ReadSignedAttrs(SetField(m, "_signer_info", signer_info),
                          signer_info.signed_attrs)

RECURSIVE ParseSignerInfos(_, _, _, _)
ParseSignerInfos(m, signed_data, certs, signer_infos) ==
  IF signer_infos = <<>> THEN [raised |-> NoError, msg |-> m]
  ELSE LET r == ParseSignerInfo(m, signed_data, certs, Head(signer_infos))
       IN IF r.raised # NoError THEN r
          ELSE ParseSignerInfos(r.msg, signed_data, certs, Tail(signer_infos))

\* SCEPMessage.parse(raw): the message it returns, or the exception it raises.
Parse(cinfo) ==
  IF cinfo.content_type # "signed_data"
  THEN [raised |-> "AssertionError", msg |-> None]
  ELSE LET signed_data == cinfo.content
           attached == Len(signed_data.certificates) > 0
           certs == IF attached THEN [list |-> signed_data.certificates] ELSE None
           m0 == IF attached
                 THEN SetField(NewSCEPMessage, "_certificates", signed_data.certificates)
                 ELSE NewSCEPMessage
           r == ParseSignerInfos(m0, signed_data, certs, signed_data.signer_infos)
       IN IF r.raised # NoError THEN r
          ELSE [raised |-> NoError,
                msg |-> SetField(r.msg, "_signed_data",
                                 signed_data.encap_content_info.content)]

\* ---------------------------------------------------------------- the state
Init ==
  /\ _signers = <<>>
  /\ _cms_attributes = <<>>
  /\ _certificates = <<>>
  /\ _pki_envelope = None
  /\ _data = None
  /\ _encryption_algorithm_id = None
  /\ _recipients = <<>>
  /\ envelope = None
  /\ pkiMessage = None
  /\ finalized = 0
  /\ raw = None
  /\ msg = None
  /\ decrypted = None
  /\ raised = NoError
  /\ crypto_calls = 0
  /\ degenerate = None

\* The builder is given attributes, signers and certificates before its
\* first finalize, MaxBuilderSize of them at most.
BuilderSize == Len(_cms_attributes) + Len(_certificates)
CanGrow == finalized = 0 /\ BuilderSize < MaxBuilderSize

\* ------------------------------------------- PKCSPKIEnvelopeBuilder actions
\* PKCSPKIEnvelopeBuilder.encrypt(data, algorithm)
encrypt(data, algorithm) ==
  /\ envelope = None
  /\ _data' = data
  /\ IF algorithm = Str("3des")
     THEN _encryption_algorithm_id' = Str("tripledes_3key") /\ raised' = NoError
     ELSE IF algorithm = Str("aes128")
     THEN _encryption_algorithm_id' = Str("aes128_cbc") /\ raised' = NoError
     ELSE IF algorithm = Str("aes256")
     THEN _encryption_algorithm_id' = Str("aes256_cbc") /\ raised' = NoError
     ELSE UNCHANGED _encryption_algorithm_id /\ raised' = "ValueError"
  /\ UNCHANGED <<builder, _recipients, outputs>>

\* PKCSPKIEnvelopeBuilder.add_recipient(certificate)
add_recipient(certificate) ==
  /\ envelope = None
  /\ Len(_recipients) < MaxRecipients
  /\ _recipients' = Append(_recipients, certificate)
  /\ raised' = NoError
  /\ UNCHANGED <<builder, _data, _encryption_algorithm_id, outputs>>

\* PKCSPKIEnvelopeBuilder.finalize(); r_key and r_iv name what os.urandom
\* returns.  Without an algorithm id, _encrypt_data fails on None.native.
PKCSPKIEnvelopeBuilder_finalize(r_key, r_iv) ==
  /\ envelope = None
  /\ IF _encryption_algorithm_id = None
     THEN /\ raised' = "AttributeError"
          /\ UNCHANGED envelope
     ELSE /\ envelope' = EnvelopeOf(_data, _encryption_algorithm_id.str, _recipients,
                                    r_key, r_iv)
          /\ raised' = NoError
  /\ UNCHANGED <<degenerate, builder, envelope_builder, pkiMessage, finalized, raw, msg,
                 decrypted,
                 crypto_calls>>

\* ------------------------------------------------ PKIMessageBuilder actions
\* PKIMessageBuilder.certificates(*certificates)
certificates(certs) ==
  /\ finalized = 0
  /\ BuilderSize + Len(certs) <= MaxBuilderSize
  /\ _certificates' = _certificates \o certs
  /\ raised' = NoError
  /\ UNCHANGED <<_signers, _cms_attributes, _pki_envelope, envelope_builder, outputs>>

\* add_signer as it would be without the append to _certificates.
add_signer_without_certificate(signer) ==
  /\ CanGrow
  /\ _signers' = Append(_signers, signer)
  /\ raised' = NoError
  /\ UNCHANGED <<_certificates, _cms_attributes, _pki_envelope, envelope_builder, outputs>>

\* PKIMessageBuilder.add_signer(signer)
add_signer(signer) ==
  /\ CanGrow
  /\ _signers' = Append(_signers, signer)
  /\ _certificates' = Append(_certificates, signer.certificate)
  /\ raised' = NoError
  /\ UNCHANGED <<_cms_attributes, _pki_envelope, envelope_builder, outputs>>

\* PKIMessageBuilder.message_type(message_type)
message_type(mt) ==
  /\ CanGrow
  /\ _cms_attributes' =
       Append(_cms_attributes, CMSAttribute("message_type", PrintableString(mt.value)))
  /\ raised' = NoError
  /\ UNCHANGED <<_signers, _certificates, _pki_envelope, envelope_builder, outputs>>

\* PKIMessageBuilder.pki_envelope(envelope)
pki_envelope(ed) ==
  /\ finalized = 0
  /\ _pki_envelope = None
  /\ _pki_envelope' = ed
  /\ raised' = NoError
  /\ UNCHANGED <<_signers, _cms_attributes, _certificates, envelope_builder, outputs>>

\* pki_status as it would be without the check of failure_info.
pki_status_unchecked(status, failure_info) ==
  /\ CanGrow
  /\ LET attr == CMSAttribute("pki_status", PrintableString(status.value))
     IN IF status = PKIStatus.FAILURE /\ failure_info # None
        THEN _cms_attributes' =
               Append(Append(_cms_attributes, attr),
                      CMSAttribute("fail_info", PrintableString(failure_info.value)))
        ELSE _cms_attributes' = Append(_cms_attributes, attr)
  /\ raised' = NoError
  /\ UNCHANGED <<_signers, _certificates, _pki_envelope, envelope_builder, outputs>>

\* PKIMessageBuilder.pki_status(status, failure_info): the pkiStatus attribute
\* is appended before failure_info is looked at.
pki_status(status, failure_info) ==
  /\ CanGrow
  /\ LET attr == CMSAttribute("pki_status", PrintableString(status.value))
     IN IF status = PKIStatus.FAILURE
        THEN IF failure_info = None
             THEN /\ _cms_attributes' = Append(_cms_attributes, attr)
                  /\ raised' = "ValueError"
             ELSE /\ _cms_attributes' =
                       Append(Append(_cms_attributes, attr),
                              CMSAttribute("fail_info",
                                           PrintableString(failure_info.value)))
                  /\ raised' = NoError
        ELSE /\ _cms_attributes' = Append(_cms_attributes, attr)
             /\ raised' = NoError
  /\ UNCHANGED <<_signers, _certificates, _pki_envelope, envelope_builder, outputs>>

\* PKIMessageBuilder.sender_nonce(nonce); r names what os.urandom(16) returns.
sender_nonce(nonce, r) ==
  /\ CanGrow
  /\ _cms_attributes' =
       Append(_cms_attributes,
              CMSAttribute("sender_nonce",
                           OctetString(IF nonce = None THEN Bytes(16, r) ELSE nonce)))
  /\ raised' = NoError
  /\ UNCHANGED <<_signers, _certificates, _pki_envelope, envelope_builder, outputs>>

\* PKIMessageBuilder.recipient_nonce(nonce)
recipient_nonce(nonce) ==
  /\ CanGrow
  /\ _cms_attributes' =
       Append(_cms_attributes, CMSAttribute("recipient_nonce", OctetString(nonce)))
  /\ raised' = NoError
  /\ UNCHANGED <<_signers, _certificates, _pki_envelope, envelope_builder, outputs>>

\* PKIMessageBuilder.transaction_id(trans_id); u names what uuid4() returns.
transaction_id(trans_id, u) ==
  /\ CanGrow
  /\ _cms_attributes' =
       Append(_cms_attributes,
              CMSAttribute("transaction_id",
                           PrintableString(IF trans_id = None THEN u
                                           ELSE trans_id.str)))
  /\ raised' = NoError
  /\ UNCHANGED <<_signers, _certificates, _pki_envelope, envelope_builder, outputs>>

\* PKIMessageBuilder.finalize(), on a builder whose envelope is set; the
\* finalize calls explored come before the message is parsed.
finalize ==
  /\ finalized < MaxFinalize
  /\ raw = None
  /\ _pki_envelope # None
  /\ \E m \in {PKIMessageOf(_signers, _cms_attributes, _certificates, _pki_envelope)} :
       /\ pkiMessage' = m.cinfo
       /\ _cms_attributes' = m.cms_attributes
  /\ finalized' = finalized + 1
  /\ crypto_calls' = crypto_calls + 1 + Len(_signers)
  /\ raised' = NoError
  /\ UNCHANGED <<degenerate, _signers, _certificates, _pki_envelope, envelope_builder,
                 envelope,
                 raw, msg, decrypted>>

\* ------------------------------------------------------ SCEPMessage actions
\* The bytes with one bit of the signature of the i-th SignerInfo flipped.
FlipSignature(cinfo, i) ==
  [cinfo EXCEPT !.content.signer_infos[i].signature.flip = TRUE]

\* The bytes with the first octet of the encrypted content, inside the
\* encapsulated inner ContentInfo, changed.
ChangeContentOctet(cinfo) ==
  [cinfo EXCEPT
     !.content.encap_content_info.content.content.encrypted_content_info
        .encrypted_content[1] = (@ + 1) % 256]

\* The bytes of a message that carries the certificates certs instead of
\* its own.
WithCertificates(cinfo, certs) == [cinfo EXCEPT !.content.certificates = certs]

\* The byte strings handed to the parser: the message as built, the message
\* with its signature or its content changed on the way, and the message
\* with no certificate or with one certificate attached.
Received(cinfo) ==
  {Dump(cinfo)}
    \cup {FlipSignature(Dump(cinfo), i) : i \in 1..Len(cinfo.content.signer_infos)}
    \cup {ChangeContentOctet(Dump(cinfo))}
    \cup {WithCertificates(Dump(cinfo), <<>>)}
    \cup {WithCertificates(Dump(cinfo), <<c>>) : c \in Certs}

\* SCEPMessage.parse(raw)
parse(bytes) ==
  /\ raw' = bytes
  /\ \E r \in {Parse(bytes)} : msg' = r.msg /\ raised' = r.raised
  /\ UNCHANGED <<degenerate, builder, envelope_builder, envelope, pkiMessage, finalized,
                 decrypted,
                 crypto_calls>>

\* SCEPMessage.get_decrypted_envelope_data(certificate, key): the octets it
\* returns, or the exception it raises, and the number of calls of
\* key.decrypt it made.  The RecipientInfo is recipient_infos[0], whatever
\* certificate is.
DecryptedEnvelopeData(m, certificate, key) ==
  LET ed == m._signed_data.content
      eci == ed.encrypted_content_info
      algorithm == eci.content_encryption_algorithm
  IN IF Len(ed.recipient_infos) = 0
     THEN [raised |-> "IndexError", data |-> None, rsa_decrypts |-> 0]
     ELSE IF ed.recipient_infos[1].key_encryption_algorithm # "rsa"
     THEN [raised |-> "AssertionError", data |-> None, rsa_decrypts |-> 0]
     ELSE LET plain_key == RsaDecrypt(key, ed.recipient_infos[1].encrypted_key)
          IN IF plain_key = None
             THEN [raised |-> "ValueError", data |-> None, rsa_decrypts |-> 1]
             ELSE [raised |-> NoError,
                   data |-> CBCDecrypt(plain_key.m, algorithm.parameters,
                                       eci.encrypted_content,
                                       BlockOctets(algorithm.algorithm)),
                   rsa_decrypts |-> 1]

get_decrypted_envelope_data(certificate, key) ==
  /\ msg # None
  /\ \E r \in {DecryptedEnvelopeData(msg, certificate, key)} :
       decrypted' = r /\ raised' = r.raised
  /\ UNCHANGED <<degenerate, builder, envelope_builder, envelope, pkiMessage, finalized,
                 raw, msg,
                 crypto_calls>>

\* ------------------------------------------------- the degenerate PKCS#7
\* create_degenerate_pkcs7(*certificates), on the argument drawn.
create_degenerate_pkcs7 ==
  /\ degenerate # None
  /\ degenerate.cinfo = None
  /\ degenerate' = [degenerate EXCEPT !.cinfo = DegeneratePKCS7Of(degenerate.certificates)]
  /\ raised' = NoError
  /\ UNCHANGED <<builder, envelope_builder, envelope, pkiMessage, finalized, raw, msg,
                 decrypted, crypto_calls>>

\* The receiver of the dumped ContentInfo reads its certificates.
LoadDegenerate ==
  /\ degenerate # None
  /\ degenerate.cinfo # None
  /\ degenerate.loaded = None
  /\ degenerate' =
       [degenerate EXCEPT
          !.loaded = [list |-> certificates_from_asn1(
                                 Dump(degenerate.cinfo).content.certificates)]]
  /\ raised' = NoError
  /\ UNCHANGED <<builder, envelope_builder, envelope, pkiMessage, finalized, raw, msg,
                 decrypted, crypto_calls>>

\* ----------------------------------------------------------- specifications
\* Inputs of the message builder.
Signers == {Signer(c, c, alg) : c \in Certs, alg \in DigestNames}
CertLists == {<<c>> : c \in Certs}
MessageTypes == {MessageType.PKCSReq, MessageType.CertRep}
Statuses == {PKIStatus.SUCCESS, PKIStatus.FAILURE}
FailInfos == {None, FailInfo.BadMessageCheck}
Nonces == {None, Bytes(16, 1)}
TransactionIds == {None, Str("a-1")}
SampleEnvelope == EnvelopeOf(<<1, 2, 3>>, "tripledes_3key", <<2, 1>>, 17, 200).ed

\* Inputs of the envelope builder.
Plaintexts == {<<>>, <<1, 2, 3>>, <<1, 2, 3, 4, 5, 6, 7, 8>>}
Algorithms == {Str("3des"), Str("aes128"), Str("aes256"), Str("0"), None}

\* The message builder, fed an envelope, and the parser, fed what it built.
Next ==
  \/ \E certs \in CertLists : certificates(certs)
  \/ \E signer \in Signers : add_signer(signer)
  \/ \E mt \in MessageTypes : message_type(mt)
  \/ pki_envelope(SampleEnvelope)
  \/ \E status \in Statuses, failure_info \in FailInfos : pki_status(status, failure_info)
  \/ \E nonce \in Nonces : sender_nonce(nonce, 2)
  \/ recipient_nonce(Bytes(16, 3))
  \/ \E trans_id \in TransactionIds : transaction_id(trans_id, "u-4")
  \/ finalize
  \/ pkiMessage # None /\ parse(Dump(pkiMessage))

Spec == Init /\ [][Next]_vars

\* The envelope builder, the message builder fed its envelope and one
\* signer, the parser fed what was built, as built or changed on the way,
\* and the decryption of what it parsed.
NextEnv ==
  \/ \E data \in Plaintexts, algorithm \in Algorithms : encrypt(data, algorithm)
  \/ \E cert \in Certs : add_recipient(cert)
  \/ \E r_key \in RandomOctets, r_iv \in RandomOctets :
       PKCSPKIEnvelopeBuilder_finalize(r_key, r_iv)
  \/ envelope # None /\ pki_envelope(envelope.ed)
  \/ _signers = <<>> /\ add_signer(Signer(1, 1, "sha256"))
  \/ _cms_attributes = <<>> /\ message_type(MessageType.PKCSReq)
  \/ finalized = 0 /\ _signers # <<>> /\ finalize
  \/ pkiMessage # None /\ \E bytes \in Received(pkiMessage) : parse(bytes)
  \/ \E cert \in Certs, key \in Certs : get_decrypted_envelope_data(cert, key)

SpecEnv == Init /\ [][NextEnv]_vars

\* Inputs of create_degenerate_pkcs7: the lists of one to
\* MaxDegenerateCerts certificates.
DegenerateInputs == UNION {[1..n -> Certs] : n \in 1..MaxDegenerateCerts}

\* create_degenerate_pkcs7 on a list of certificates, and the receiver of
\* what it returned.
InitDegenerate ==
  /\ _signers = <<>>
  /\ _cms_attributes = <<>>
  /\ _certificates = <<>>
  /\ _pki_envelope = None
  /\ _data = None
  /\ _encryption_algorithm_id = None
  /\ _recipients = <<>>
  /\ envelope = None
  /\ pkiMessage = None
  /\ finalized = 0
  /\ raw = None
  /\ msg = None
  /\ decrypted = None
  /\ raised = NoError
  /\ crypto_calls = 0
  /\ degenerate \in {[certificates |-> certs, cinfo |-> None, loaded |-> None] :
                       certs \in DegenerateInputs}

NextDegenerate ==
  \/ create_degenerate_pkcs7
  \/ LoadDegenerate

SpecDegenerate == InitDegenerate /\ [][NextDegenerate]_vars

\* ------------------------------------------------------------------- claims
\* What was parsed is the last message built, as built.
ParsedAsBuilt == pkiMessage # None /\ raw = Dump(pkiMessage) /\ msg # None

SignerInfosOf(cinfo) == cinfo.content.signer_infos
AttrsOfType(attrs, type) == {i \in 1..Len(attrs) : attrs[i].type = type}

\* C1: parse returns no message when the signature of a SignerInfo does not
\* verify, under the public key of the attached certificate with the
\* signer's serial number and the declared digest algorithm, over the DER
\* of its signed attributes.
C1_ParseRejectsBadSignature ==
  (raw # None /\ msg # None) =>
    \A i \in 1..Len(SignerInfosOf(raw)) :
      LET si == SignerInfosOf(raw)[i]
          found == FindSignerCert([list |-> raw.content.certificates], si.sid)
      IN found # None =>
           RsaVerify(found.cert, si.digest_algorithm, si.signed_attrs, si.signature)

\* C2: when an octet of the encapsulated content of a built message is
\* changed, its signed attributes and signatures left as they were, parse
\* returns no message.
C2_ParseRejectsChangedContent ==
  (pkiMessage # None /\ raw = ChangeContentOctet(Dump(pkiMessage))) => msg = None

\* C3: decrypting, with the key the first recipient info was made for, the
\* envelope of a message parsed as built returns the plaintext given to
\* PKCSPKIEnvelopeBuilder.encrypt, without its padding.
C3_DecryptReturnsPlaintext ==
  (ParsedAsBuilt /\ decrypted # None /\ decrypted.raised = NoError) =>
    decrypted.data = _data

\* The parsed message m exposes the SCEP attribute a with its value.
Exposes(m, a) ==
  CASE a.type = "message_type" -> m._message_type.value = a.value.printable
    [] a.type = "pki_status" -> m._pki_status = Native(a.value)
    [] a.type = "fail_info" ->
         "_fail_info" \in DOMAIN m /\ m._fail_info = Native(a.value)
    [] a.type = "sender_nonce" -> m._sender_nonce = Native(a.value)
    [] a.type = "recipient_nonce" -> m._recipient_nonce = Native(a.value)
    [] a.type = "transaction_id" -> m._transaction_id = Native(a.value)
    [] OTHER -> TRUE

\* C4: the message parsed from a finalized message exposes every SCEP
\* attribute that was set once on the builder, with its value.
C4_ParseExposesEveryAttribute ==
  ParsedAsBuilt =>
    \A i \in 1..Len(_cms_attributes) :
      (/\ _cms_attributes[i].type \in SCEPAttributeNames
       /\ Cardinality(AttrsOfType(_cms_attributes, _cms_attributes[i].type)) = 1)
        => Exposes(msg, _cms_attributes[i])

\* C5: pki_status(FAILURE) without failure_info raises, and computes no
\* digest and no signature and builds no message.
C5_FailureWithoutFailInfoRaises ==
  [][pki_status(PKIStatus.FAILURE, None) =>
       /\ raised' = "ValueError"
       /\ crypto_calls' = crypto_calls
       /\ pkiMessage' = pkiMessage]_vars

\* C5 witness: the call has raised, before any finalize.
C5_Witness ==
  /\ raised = "ValueError"
  /\ _cms_attributes # <<>>
  /\ _cms_attributes[Len(_cms_attributes)] =
       CMSAttribute("pki_status", PrintableString(PKIStatus.FAILURE.value))
  /\ crypto_calls = 0
  /\ pkiMessage = None

\* C6: the signed attributes of every SignerInfo of a built message hold a
\* failInfo attribute exactly when they hold pkiStatus = FAILURE.
C6_FailInfoIffFailure ==
  pkiMessage # None =>
    \A i \in 1..Len(SignerInfosOf(pkiMessage)) :
      LET attrs == SignerInfosOf(pkiMessage)[i].signed_attrs
      IN (AttrsOfType(attrs, "fail_info") # {})
           <=> (\E k \in AttrsOfType(attrs, "pki_status") :
                  attrs[k].value = PrintableString(PKIStatus.FAILURE.value))

\* C7: every signer's certificate is in the builder's certificate set, and
\* the certificates of every built message include, for every SignerInfo,
\* the certificate its signer identifier names.
C7_SignerCertificatesAttached ==
  /\ \A i \in 1..Len(_signers) : _signers[i].certificate \in Range(_certificates)
  /\ pkiMessage # None =>
       \A i \in 1..Len(SignerInfosOf(pkiMessage)) :
         \E c \in Range(pkiMessage.content.certificates) :
           IssuerAndSerialNumber(c) = SignerInfosOf(pkiMessage)[i].sid

\* C7 witness: a message built with two signers and a further certificate.
C7_Witness ==
  /\ pkiMessage # None
  /\ Len(SignerInfosOf(pkiMessage)) = 2
  /\ Len(pkiMessage.content.certificates) > 2
  /\ _signers[1].certificate # _signers[2].certificate

\* C8: the message-digest attribute of every SignerInfo of a built message
\* is the digest of the encapsulated content under that signer's digest
\* algorithm.
C8_MessageDigestUsesSignerAlgorithm ==
  pkiMessage # None =>
    \A i \in 1..Len(SignerInfosOf(pkiMessage)) :
      LET si == SignerInfosOf(pkiMessage)[i]
      IN \A k \in AttrsOfType(si.signed_attrs, "message_digest") :
           si.signed_attrs[k].value =
             OctetString(Hash(si.digest_algorithm,
                              pkiMessage.content.encap_content_info.content))

\* C9: no message is built from signers of different digest algorithms.
C9_MixedDigestsRejected ==
  pkiMessage # None =>
    \A i, j \in 1..Len(_signers) :
      _signers[i].digest_algorithm = _signers[j].digest_algorithm

\* C10: the first finalize gives every signer the signed attributes
\* content-type = data, then one message-digest, then the attributes the
\* builder had accumulated, in their order.
C10_SignedAttributesOfEverySigner ==
  [][(finalized = 0 /\ finalize) =>
       \A i \in 1..Len(SignerInfosOf(pkiMessage')) :
         LET attrs == SignerInfosOf(pkiMessage')[i].signed_attrs
         IN /\ Len(attrs) = Len(_cms_attributes) + 2
            /\ attrs[1] = CMSAttribute("content_type", ContentType("data"))
            /\ attrs[2].type = "message_digest"
            /\ SubSeq(attrs, 3, Len(attrs)) = _cms_attributes]_vars

\* C11: get_decrypted_envelope_data(certificate, key), on a message parsed
\* as built whose envelope has recipients, takes the RecipientInfo made for certificate wherever it is in
\* recipient_infos, so that it succeeds with the key of that certificate;
\* when no RecipientInfo was made for certificate it raises UnknownRecipient
\* and has not called key.decrypt.
C11_RecipientSelectedByCertificate ==
  [][\A cert \in Certs, key \in Certs :
       (ParsedAsBuilt /\ get_decrypted_envelope_data(cert, key)) =>
         LET ris == msg._signed_data.content.recipient_infos
         IN ris # <<>> =>
              IF \E i \in 1..Len(ris) : ris[i].rid = IssuerAndSerialNumber(cert)
              THEN key = cert => decrypted'.raised = NoError
              ELSE /\ decrypted'.raised = "UnknownRecipient"
                   /\ decrypted'.rsa_decrypts = 0]_vars

\* The fields a SCEPMessage has after __init__ and parse.
SCEPMessageFields == DOMAIN NewSCEPMessage \cup {"_fail_info"}

\* C12: when the bytes parsed hold a SignerInfo whose serial number is that
\* of no attached certificate, parse returns a message, the message exposes
\* the SCEP attributes of the SignerInfo, and the message holds a record,
\* beside the fields of every parsed message, that the signer is unverified.
C12_UnverifiedSignerRecorded ==
  raw # None =>
    \A i \in 1..Len(SignerInfosOf(raw)) :
      LET si == SignerInfosOf(raw)[i]
      IN (\A c \in Range(raw.content.certificates) :
            Serial(c) # si.sid.serial_number)
           => /\ msg # None
              /\ \A k \in 1..Len(si.signed_attrs) :
                   Cardinality(AttrsOfType(si.signed_attrs, si.signed_attrs[k].type)) = 1
                     => Exposes(msg, si.signed_attrs[k])
              /\ DOMAIN msg \ SCEPMessageFields # {}

\* Octets of the key and of the IV of a content encryption algorithm.
KeyOctets(algorithm_id) ==
  CASE algorithm_id = "tripledes_3key" -> 24
    [] algorithm_id = "aes128_cbc" -> 16
    [] OTHER -> 32
IVOctets(algorithm_id) == IF algorithm_id = "tripledes_3key" THEN 8 ELSE 16

\* C13: the key PKCSPKIEnvelopeBuilder.finalize generates from os.urandom
\* has 24 octets for 3DES, 16 for AES-128 and 32 for AES-256, the IV has 8
\* octets for 3DES and 16 for AES, and the key it returns and the key it
\* wraps for each recipient have the length of the generated key.
C13_KeyAndIVLengths ==
  envelope # None =>
    LET eci == envelope.ed.encrypted_content_info
        algorithm_id == eci.content_encryption_algorithm.algorithm
        ris == envelope.ed.recipient_infos
    IN /\ Len(envelope.generated) = KeyOctets(algorithm_id)
       /\ Len(envelope.iv) = IVOctets(algorithm_id)
       /\ Len(eci.content_encryption_algorithm.parameters) = IVOctets(algorithm_id)
       /\ Len(envelope.sym_key) = Len(envelope.generated)
       /\ \A i \in 1..Len(ris) : Len(ris[i].encrypted_key.m) = Len(envelope.generated)

\* C14: PKIMessageBuilder.finalize on a builder without signers raises
\* NoSigners and builds nothing, and every message it builds has a
\* SignerInfo.
C14_NoSignersRejected ==
  [][finalize =>
       IF _signers = <<>>
       THEN raised' = "NoSigners" /\ pkiMessage' = pkiMessage
       ELSE SignerInfosOf(pkiMessage') # <<>>]_vars

\* C15: PKCSPKIEnvelopeBuilder.finalize on a builder with data and algorithm
\* set and without recipients raises NoRecipients and builds nothing, and
\* every EnvelopedData it builds has a RecipientInfo.
C15_NoRecipientsRejected ==
  [][\A r_key \in RandomOctets, r_iv \in RandomOctets :
       (_encryption_algorithm_id # None
          /\ PKCSPKIEnvelopeBuilder_finalize(r_key, r_iv)) =>
         IF _recipients = <<>>
         THEN raised' = "NoRecipients" /\ envelope' = envelope
         ELSE envelope'.ed.recipient_infos # <<>>]_vars

\* The place in attrs of the last attribute of a type.
LastOfType(attrs, type) ==
  CHOOSE k \in AttrsOfType(attrs, type) : \A j \in AttrsOfType(attrs, type) : j <= k

\* C16: when a nonce was set on the builder, once or more, the signed
\* attributes of every SignerInfo of a built message hold one attribute of
\* its type, with the value of the last call.
C16_NonceSetTwiceOverwrites ==
  pkiMessage # None =>
    \A i \in 1..Len(SignerInfosOf(pkiMessage)) :
      \A type \in {"sender_nonce", "recipient_nonce"} :
        LET attrs == SignerInfosOf(pkiMessage)[i].signed_attrs
        IN AttrsOfType(_cms_attributes, type) # {} =>
             /\ Cardinality(AttrsOfType(attrs, type)) = 1
             /\ \A k \in AttrsOfType(attrs, type) :
                  attrs[k] = _cms_attributes[LastOfType(_cms_attributes, type)]

\* C18: PKIMessageBuilder.finalize leaves _cms_attributes, _signers and
\* _certificates as they were, and a second finalize builds a message with
\* the signed attributes and the bytes of the first.
C18_FinalizeLeavesBuilderUnchanged ==
  [][finalize =>
       /\ UNCHANGED <<_cms_attributes, _signers, _certificates>>
       /\ pkiMessage # None =>
            /\ \A i \in 1..Len(SignerInfosOf(pkiMessage)) :
                 SignerInfosOf(pkiMessage')[i].signed_attrs
                   = SignerInfosOf(pkiMessage)[i].signed_attrs
            /\ Dump(pkiMessage') = Dump(pkiMessage)]_vars

====
